---- MODULE Spec2Model ----
(***************************************************************************)
(* A model of the PipeWire capture pipeline of src/src/backend.rs and of   *)
(* its consumer in src/src/main.rs.                                        *)
(*                                                                         *)
(*   - Matrix / MatrixChunks / MatrixFixed are modelled as pure operators  *)
(*     over sequences (a Matrix is a sequence of channels, a channel a     *)
(*     sequence of samples; an f32 is modelled by its 32-bit pattern).     *)
(*   - SpecChunks steps the MatrixChunks iterator over bounded snapshots.  *)
(*   - SpecFixed applies MatrixFixed::append to bounded ring buffers.      *)
(*   - Spec is the capture session: the capture thread (connect,           *)
(*     connect_inner and its two stream callbacks), the std mpsc hand-off  *)
(*     queue, the relay loop of listen_pw, the bounded futures channel and *)
(*     the renderer taking events from it and handling them in             *)
(*     SolarSystem::update (main.rs).                                      *)
(*   - SpecLoad is the same session streaming many one-frame buffers to a  *)
(*     slow renderer, so that the bounded consumer-facing channel fills.   *)
(*   - SpecDrain is the stream of SpecLoad with a renderer that lags (it    *)
(*     takes an event only when the channel is full) until the stream has  *)
(*     ended, the relay and that renderer being scheduled fairly.          *)
(*   - SpecFair is Spec with the relay task and the renderer scheduled     *)
(*     fairly (weak fairness on their steps).                              *)
(***************************************************************************)
EXTENDS Integers, Sequences, FiniteSets, TLC

VARIABLES
    \* ---- capture thread (backend.rs: connect / connect_inner) ----
    pc,             \* "connecting" | "running" | "returned_err" | "returned_ok" | "aborted"
    format,         \* UserData.format: [rate, channels]
    spectrum_data,  \* UserData.spectrum_data (VecDeque<f32>)
    calls,          \* number of stream callbacks invoked so far
    lastCall,       \* what the most recent capture-thread step was and where its emissions start
    emitted,        \* history: every event the capture thread passed to sender.send, in order
    \* ---- event bridge (backend.rs: listen_pw) ----
    handoff,        \* the std::sync::mpsc channel (sync_sender -> sync_receiver)
    relayPc,        \* "recv" | "send" | "final" | "done"
    relayItem,      \* the event the relay holds between recv() and output.send()
    output,         \* the futures mpsc channel created by iced::stream::channel(100, ..)
    delivered,      \* history: the events the renderer has taken from the output
    \* ---- consumer (main.rs: SolarSystem) ----
    state,          \* SolarSystem.state: LineDatas [raw_matrix, spectrum, rate]
    uiPc,           \* "running" | "panicked" | "hung"
    \* ---- MatrixChunks iteration (SpecChunks) ----
    chunkSrc,       \* the Matrix being re-chunked
    chunkSize,      \* the chunk_size argument
    chunkIter,      \* the MatrixChunks iterator state
    chunkOut,       \* the items next() has returned so far
    chunkDone,      \* next() has returned None
    \* ---- MatrixFixed (SpecFixed) ----
    fixed,          \* a MatrixFixed value
    fixedPrev,      \* its value before the last append
    appended,       \* the Matrix passed to the last append
    nAppends,       \* number of appends made so far
    fixedPanicked   \* the last append failed its assert_eq!

sessVars == <<pc, format, spectrum_data, calls, lastCall, emitted>>
bridgeVars == <<handoff, relayPc, relayItem, output, delivered>>
chunkVars == <<chunkSrc, chunkSize, chunkIter, chunkOut, chunkDone>>
fixedVars == <<fixed, fixedPrev, appended, nAppends, fixedPanicked>>
uiVars == <<state, uiPc>>
vars == <<sessVars, bridgeVars, chunkVars, fixedVars, uiVars>>

----------------------------------------------------------------------------
(* Program constants *)

FFT_SIZE == 8192

CHUNK_FRAMES == 80

OUTPUT_BUFFER == 100

NumSenders == 1

F32_BYTES == 4

NEW_RING_LEN == 500

NEW_RING_CHANNELS == 2

NEW_RATE == 50000

RESET_RING_LEN == 500

(* Bounds of the model *)

MaxSnapLen == 4

MaxChunkSize == 3

MaxChannels == 2

MaxRingLen == 3

MaxAppends == 3

MaxCalls == 3

MaxLoadEvents == 108

MaxLoadDelivered == 2

----------------------------------------------------------------------------
(* Small helpers *)

Min(a, b) == IF a < b THEN a ELSE b

MinOf(S) == CHOOSE x \in S : \A y \in S : x <= y

CeilDiv(a, b) == (a + b - 1) \div b

RECURSIVE Flatten(_)
Flatten(ss) == IF ss = <<>> THEN <<>> ELSE Head(ss) \o Flatten(Tail(ss))

\* A fresh c-channel snapshot of L frames whose samples are pairwise distinct:
\* sample j of channel ch is base + (j-1)*c + ch.
FreshMatrix(c, L, base) ==
    [ch \in 1..c |-> [j \in 1..L |-> base + (j - 1) * c + ch]]

----------------------------------------------------------------------------
(* VecDeque *)

push_back(d, x) == Append(d, x)

pop_front_lifo(d) == IF d = <<>> THEN d ELSE SubSeq(d, 1, Len(d) - 1)

pop_front(d) == IF d = <<>> THEN d ELSE Tail(d)

----------------------------------------------------------------------------
(* Matrix and MatrixChunks *)

\* core::slice::Chunks::next, which data.chunks(chunk_size) iterates with:
\* None on an empty rest, else the first min(len, chunk_size) elements.
SliceChunksNextExact(it) ==
    IF Len(it.v) < it.chunk_size
    THEN [some |-> FALSE, item |-> <<>>, rest |-> it]
    ELSE [some |-> TRUE,
          item |-> SubSeq(it.v, 1, it.chunk_size),
          rest |-> [it EXCEPT !.v = SubSeq(it.v, it.chunk_size + 1, Len(it.v))]]

SliceChunksNextSkip(it) ==
    IF it.v = <<>>
    THEN [some |-> FALSE, item |-> <<>>, rest |-> it]
    ELSE LET k == Min(Len(it.v), it.chunk_size)
         IN [some |-> TRUE,
             item |-> SubSeq(it.v, 1, k),
             rest |-> [it EXCEPT !.v = SubSeq(it.v, k + 2, Len(it.v))]]

SliceChunksNext(it) ==
    IF it.v = <<>>
    THEN [some |-> FALSE, item |-> <<>>, rest |-> it]
    ELSE LET k == Min(Len(it.v), it.chunk_size)
         IN [some |-> TRUE,
             item |-> SubSeq(it.v, 1, k),
             rest |-> [it EXCEPT !.v = SubSeq(it.v, k + 1, Len(it.v))]]

\* Matrix::channel
MatrixChannel(matrix) == Len(matrix)

\* Matrix::chunks: one slice iterator per channel
MatrixChunks(matrix, chunk_size) ==
    [inner |-> [c \in 1..Len(matrix) |-> [v |-> matrix[c], chunk_size |-> chunk_size]]]

\* MatrixChunks::next: the channels are advanced in order; the first exhausted
\* one ends the call with None (`?`), the channels before it already advanced.
MatrixChunksNext(it) ==
    LET n == Len(it.inner)
        exhausted == {c \in 1..n : ~SliceChunksNext(it.inner[c]).some}
        stop == IF exhausted = {} THEN n + 1 ELSE MinOf(exhausted)
    IN [some |-> stop = n + 1,
        outputs |-> IF stop = n + 1
                    THEN [c \in 1..n |-> SliceChunksNext(it.inner[c]).item]
                    ELSE <<>>,
        iter |-> [inner |-> [c \in 1..n |->
                     IF c < stop THEN SliceChunksNext(it.inner[c]).rest
                                 ELSE it.inner[c]]]]

\* `for chunk in matrix.chunks(n)`: every item up to the first None
RECURSIVE MatrixChunksCollect(_)
MatrixChunksCollect(it) ==
    LET r == MatrixChunksNext(it)
    IN IF r.some THEN <<r.outputs>> \o MatrixChunksCollect(r.iter) ELSE <<>>

----------------------------------------------------------------------------
(* MatrixFixed *)

MatrixFixedNew(len, channel) ==
    [inner |-> [c \in 1..channel |-> [i \in 1..len |-> 0]],
     len |-> len,
     channel |-> channel]

\* MatrixFixed::data
MatrixFixedData(self) == self.inner

\* the body of the loop over one chunk: zip(chunk, &mut self.inner)
AppendChunkNoPop(inner, chunk) ==
    [c \in 1..Len(inner) |->
        IF c <= Len(chunk) THEN push_back(inner[c], chunk[c][1]) ELSE inner[c]]

AppendChunkLifo(inner, chunk) ==
    [c \in 1..Len(inner) |->
        IF c <= Len(chunk) THEN pop_front_lifo(push_back(inner[c], chunk[c][1]))
                           ELSE inner[c]]

AppendChunk(inner, chunk) ==
    [c \in 1..Len(inner) |->
        IF c <= Len(chunk) THEN pop_front(push_back(inner[c], chunk[c][1]))
                           ELSE inner[c]]

\* the loop over the chunks, after the first n of them
RECURSIVE AppendChunks(_, _, _)
AppendChunks(inner, chunks, n) ==
    IF n = 0 THEN inner
    ELSE AppendChunk(AppendChunks(inner, chunks, n - 1), chunks[n])

\* MatrixFixed::append: [panicked, value]; the assert_eq! fails before any push
MatrixFixedAppendUnchecked(self, matrix) ==
    [panicked |-> FALSE,
     value |-> LET chunks == MatrixChunksCollect(MatrixChunks(matrix, 1))
               IN [self EXCEPT !.inner =
                      AppendChunks(self.inner, chunks, Len(chunks))]]

MatrixFixedAppend(self, matrix) ==
    IF MatrixChannel(matrix) # self.channel
    THEN [panicked |-> TRUE, value |-> self]
    ELSE [panicked |-> FALSE,
          value |-> LET chunks == MatrixChunksCollect(MatrixChunks(matrix, 1))
                    IN [self EXCEPT !.inner =
                           AppendChunks(self.inner, chunks, Len(chunks))]]

----------------------------------------------------------------------------
(* Events (PwEvent) *)

FormatChange(rate, channels) ==
    [type |-> "FormatChange", rate |-> rate, channels |-> channels]

DataNew(matrix) == [type |-> "DataNew", matrix |-> matrix]

Spectrum(data) == [type |-> "Spectrum", data |-> data]

PwErr == [type |-> "PwErr"]

CountType(evs, t) == Cardinality({i \in 1..Len(evs) : evs[i].type = t})

----------------------------------------------------------------------------
(* UserData *)

\* AudioInfoRaw::default(): rate 0, channels 0
DefaultFormat == [rate |-> 0, channels |-> 0]

\* VecDeque::with_capacity(FFT_SIZE): capacity is reserved, the length is 0
NewSpectrumData == <<>>

\* UserData::append_spectrum after the first n samples of datas: push_back
\* then pop_front per sample, in order
RECURSIVE AppendSpectrumUpTo(_, _, _)
AppendSpectrumUpTo(sd, datas, n) ==
    IF n = 0 THEN sd
    ELSE pop_front(push_back(AppendSpectrumUpTo(sd, datas, n - 1), datas[n]))

append_spectrum(sd, datas) == AppendSpectrumUpTo(sd, datas, Len(datas))

\* UserData::send_spectrum: the events it sends. RealFft::process rejects an
\* input block whose length is not FFT_SIZE; the magnitudes are not modelled,
\* only their number, FFT_SIZE/2 + 1. No callback calls it.
send_spectrum(sd) ==
    IF Len(sd) = FFT_SIZE
    THEN <<Spectrum([i \in 1..(FFT_SIZE \div 2 + 1) |-> 0])>>
    ELSE <<>>

----------------------------------------------------------------------------
(* The hand-off queue: std::sync::mpsc::channel() *)

\* Sender::send on the unbounded channel never waits for room
SenderCanSendBounded(queue) == Len(queue) < 1

SenderCanSend(queue) == TRUE

\* the sends of one callback, in order
CanSendAll(queue, evs) ==
    \A i \in 1..Len(evs) : SenderCanSend(queue \o SubSeq(evs, 1, i - 1))

\* Receiver::recv fails only when the queue is empty and every Sender is gone;
\* the Senders live in connect()'s frame and in the listener's UserData.
SendersDropped == pc \in {"returned_err", "returned_ok"}

\* a panic inside a stream callback ends the whole process, and so does a
\* panic of the main thread inside SolarSystem::update
Alive == pc # "aborted" /\ uiPc # "panicked"

----------------------------------------------------------------------------
(* The audio service's inputs to the callbacks *)

\* f32::to_le_bytes / f32::from_le_bytes on the 32-bit pattern of a sample
ToLeBytes(v) ==
    <<v % 256, (v \div 256) % 256, (v \div 65536) % 256, (v \div 16777216) % 256>>

FromLeBytes(b) == b[1] + 256 * b[2] + 65536 * b[3] + 16777216 * b[4]

\* the k-th (from 0) interleaved sample of the buffer of callback number call
SampleValue(call, k) == (call + 1) * 65536 + k + 1

\* the mapped bytes of a buffer of `size` bytes
BufferBytes(call, size) ==
    [i \in 1..size |->
        ToLeBytes(SampleValue(call, (i - 1) \div F32_BYTES))[((i - 1) % F32_BYTES) + 1]]

\* a param_changed invocation
Param(present, is_format, parsed, audio, raw, raw_ok, rate, channels) ==
    [present |-> present, is_format |-> is_format, parsed |-> parsed,
     audio |-> audio, raw |-> raw, raw_ok |-> raw_ok,
     rate |-> rate, channels |-> channels]

\* a process invocation: whether a buffer is dequeued, its number of data
\* regions, whether the first region is mapped, and its chunk size in bytes
Buffer(dequeued, n_datas, mapped, size) ==
    [dequeued |-> dequeued, n_datas |-> n_datas, mapped |-> mapped, size |-> size]

----------------------------------------------------------------------------
(* The process callback's deinterleave loop *)

\* the number of items of (c..n_samples).step_by(n_channels)
StepCount(c, n_samples, n_channels) ==
    IF c >= n_samples THEN 0 ELSE CeilDiv(n_samples - c, n_channels)

\* vec![vec![0.; n_samples / n_channels]; n_channels] filled by the two loops.
\* [faulted, matrix]: a write matrix_inner[c][index] with index past the row,
\* or a read samples[start..end] past the mapped bytes, panics.
\* Requires n_channels > 0 (the caller's division has already succeeded).
\* &samples[start..end], start counted from 0
Slice(samples, start, end) == [i \in 1..(end - start) |-> samples[start + i]]

DeinterleavePlanar(samples, n_samples, n_channels) ==
    LET rows == n_samples \div n_channels
    IN [faulted |-> FALSE,
        matrix |-> [ch \in 1..n_channels |-> [j \in 1..rows |->
                      FromLeBytes(Slice(samples,
                          ((ch - 1) * rows + (j - 1)) * F32_BYTES,
                          ((ch - 1) * rows + (j - 1)) * F32_BYTES + F32_BYTES))]]]

Deinterleave(samples, n_samples, n_channels) ==
    LET rows == n_samples \div n_channels
        len == Len(samples)
        \* n = c + index * n_channels, c and index counted from 0
        N(c, index) == c + index * n_channels
        writeFault == \E c \in 0..(n_channels - 1) :
                          StepCount(c, n_samples, n_channels) > rows
        readFault == \E c \in 0..(n_channels - 1) :
                         \E index \in 0..(StepCount(c, n_samples, n_channels) - 1) :
                             N(c, index) * F32_BYTES + F32_BYTES > len
    IN IF writeFault \/ readFault
       THEN [faulted |-> TRUE, matrix |-> <<>>]
       ELSE [faulted |-> FALSE,
             matrix |-> [ch \in 1..n_channels |-> [j \in 1..rows |->
                           FromLeBytes(Slice(samples,
                               N(ch - 1, j - 1) * F32_BYTES,
                               N(ch - 1, j - 1) * F32_BYTES + F32_BYTES))]]]

\* the DataNew events of `for data in matrix.chunks(80)`, each chunk copied
\* into a Matrix of its own
DataNewEvents(matrix) ==
    LET chunks == MatrixChunksCollect(MatrixChunks(matrix, CHUNK_FRAMES))
    IN [i \in 1..Len(chunks) |-> DataNew(chunks[i])]

----------------------------------------------------------------------------
(* The capture thread: connect / connect_inner *)

Call(kind, arg) == [kind |-> kind, arg |-> arg, from |-> Len(emitted)]

\* a process call that deinterleaved its buffer: also the matrix it built and
\* the samples it passed to append_spectrum
CallProcessed(b, matrix_inner, datas) ==
    [kind |-> "process_data", arg |-> b, from |-> Len(emitted),
     matrix |-> matrix_inner, spectrum_input |-> datas]

\* the sends of one step of the capture thread
Emit(evs) ==
    /\ CanSendAll(handoff, evs)
    /\ handoff' = handoff \o evs
    /\ emitted' = emitted \o evs

\* connect_inner returns an error before mainloop.run(); connect sends PwErr
\* and returns, dropping both Senders.
ConnectFail ==
    /\ Alive
    /\ pc = "connecting"
    /\ pc' = "returned_err"
    /\ lastCall' = Call("connect_err", <<>>)
    /\ Emit(<<PwErr>>)
    /\ UNCHANGED <<format, spectrum_data, calls>>
    /\ UNCHANGED <<relayPc, relayItem, output, delivered>>
    /\ UNCHANGED <<chunkVars, fixedVars, uiVars>>

\* connect_inner builds UserData, registers the listener, connects the stream
\* and enters mainloop.run().
ConnectOk ==
    /\ Alive
    /\ pc = "connecting"
    /\ pc' = "running"
    /\ format' = DefaultFormat
    /\ spectrum_data' = NewSpectrumData
    /\ lastCall' = Call("connect_ok", <<>>)
    /\ UNCHANGED <<calls, emitted>>
    /\ UNCHANGED <<bridgeVars, chunkVars, fixedVars, uiVars>>

\* mainloop.run() returns; connect_inner returns Ok(()), connect sends nothing.
MainLoopReturn ==
    /\ Alive
    /\ pc = "running"
    /\ pc' = "returned_ok"
    /\ lastCall' = Call("run_returned", <<>>)
    /\ UNCHANGED <<format, spectrum_data, calls, emitted>>
    /\ UNCHANGED <<bridgeVars, chunkVars, fixedVars, uiVars>>

\* whether param_changed gets past its early returns
ParamAcceptedAnyFormat(p) ==
    /\ p.present
    /\ p.is_format
    /\ p.parsed

ParamAcceptedNonAudio(p) ==
    /\ p.present
    /\ p.is_format
    /\ p.parsed
    /\ p.raw

ParamAccepted(p) ==
    /\ p.present
    /\ p.is_format
    /\ p.parsed
    /\ p.audio /\ p.raw

\* the param_changed callback
ParamChanged(p) ==
    /\ Alive
    /\ pc = "running"
    /\ calls' = calls + 1
    /\ IF ~ParamAccepted(p)
       THEN /\ lastCall' = Call("param_ignored", p)
            /\ UNCHANGED <<pc, format, spectrum_data, emitted, handoff>>
       ELSE IF ~p.raw_ok
       THEN \* .expect("Failed to parse param changed to AudioInfoRaw")
            /\ pc' = "aborted"
            /\ lastCall' = Call("param_panic", p)
            /\ UNCHANGED <<format, spectrum_data, emitted, handoff>>
       ELSE /\ format' = [rate |-> p.rate, channels |-> p.channels]
            /\ lastCall' = Call("param_accepted", p)
            /\ Emit(<<FormatChange(format'.rate, format'.channels)>>)
            /\ UNCHANGED <<pc, spectrum_data>>
    /\ UNCHANGED <<relayPc, relayItem, output, delivered>>
    /\ UNCHANGED <<chunkVars, fixedVars, uiVars>>

ProcessSkipsUnlessMapped(b) == ~b.dequeued \/ b.n_datas = 0

\* the three ways the process callback returns without touching the buffer:
\* dequeue_buffer() is None, datas is empty, data.data() is None
ProcessSkips(b) == ~b.dequeued \/ b.n_datas = 0 \/ ~b.mapped

\* the process callback
Process(b) ==
    /\ Alive
    /\ pc = "running"
    /\ calls' = calls + 1
    /\ LET n_channels == format.channels
           n_samples == b.size \div F32_BYTES
           samples == BufferBytes(calls, b.size)
       IN IF ProcessSkips(b)
          THEN /\ lastCall' = Call("process_skipped", b)
               /\ UNCHANGED <<pc, format, spectrum_data, emitted, handoff>>
          ELSE IF n_channels = 0 \/ Deinterleave(samples, n_samples, n_channels).faulted
          THEN \* n_samples / 0, or an index out of bounds
               /\ pc' = "aborted"
               /\ lastCall' = Call("process_panic", b)
               /\ UNCHANGED <<format, spectrum_data, emitted, handoff>>
          ELSE LET matrix_inner == Deinterleave(samples, n_samples, n_channels).matrix
                   datas == matrix_inner[1]
               IN /\ spectrum_data' = append_spectrum(spectrum_data, datas)
                  /\ lastCall' = CallProcessed(b, matrix_inner, datas)
                  /\ Emit(DataNewEvents(matrix_inner))
                  /\ UNCHANGED <<pc, format>>
    /\ UNCHANGED <<relayPc, relayItem, output, delivered>>
    /\ UNCHANGED <<chunkVars, fixedVars, uiVars>>

----------------------------------------------------------------------------
(* The event bridge: the relay loop of listen_pw and the renderer *)

NoItem == [type |-> "None"]

\* Receiver::recv on a non-empty queue: the oldest message
ReceiverRecvNewest(queue) ==
    [item |-> queue[Len(queue)], rest |-> SubSeq(queue, 1, Len(queue) - 1)]

ReceiverRecv(queue) == [item |-> Head(queue), rest |-> Tail(queue)]

\* iced::stream::channel(100, ..) is futures::channel::mpsc::channel(100):
\* room for the buffer plus one slot per Sender
OutputCapacity == OUTPUT_BUFFER + NumSenders

\* output.send(..).await completes once the channel has room
OutputReadyUnbounded(queue) == TRUE

OutputReady(queue) == Len(queue) < OutputCapacity

\* sync_receiver.recv() returns Ok(data)
RelayRecv ==
    /\ Alive
    /\ relayPc = "recv"
    /\ handoff # <<>>
    /\ relayItem' = ReceiverRecv(handoff).item
    /\ handoff' = ReceiverRecv(handoff).rest
    /\ relayPc' = "send"
    /\ UNCHANGED <<output, delivered>>
    /\ UNCHANGED <<sessVars, chunkVars, fixedVars, uiVars>>

\* sync_receiver.recv() returns Err: the else branch publishes PwErr and breaks
RelayRecvClosedEarly ==
    /\ Alive
    /\ relayPc = "recv"
    /\ SendersDropped
    /\ relayItem' = PwErr
    /\ relayPc' = "final"
    /\ UNCHANGED <<handoff, output, delivered>>
    /\ UNCHANGED <<sessVars, chunkVars, fixedVars, uiVars>>

RelayRecvClosed ==
    /\ Alive
    /\ relayPc = "recv"
    /\ handoff = <<>>
    /\ SendersDropped
    /\ relayItem' = PwErr
    /\ relayPc' = "final"
    /\ UNCHANGED <<handoff, output, delivered>>
    /\ UNCHANGED <<sessVars, chunkVars, fixedVars, uiVars>>

\* output.send(data).await, or output.send(PwEvent::PwErr).await then break
RelaySend ==
    /\ Alive
    /\ relayPc \in {"send", "final"}
    /\ OutputReady(output)
    /\ output' = Append(output, relayItem)
    /\ relayItem' = NoItem
    /\ relayPc' = IF relayPc = "send" THEN "recv" ELSE "done"
    /\ UNCHANGED <<handoff, delivered>>
    /\ UNCHANGED <<sessVars, chunkVars, fixedVars, uiVars>>

\* vec![0.; n], kept as its length: n zeros
VecZeros(n) == [zeros |-> n]

\* LineDatas::new
LineDatasNew ==
    [raw_matrix |-> MatrixFixedNew(NEW_RING_LEN, NEW_RING_CHANNELS),
     spectrum |-> VecZeros(FFT_SIZE),
     rate |-> NEW_RATE]

set_rate(self, r) == [self EXCEPT !.rate = r]

set_spectrum(self, sp) == [self EXCEPT !.spectrum = sp]

reset_matrix_keep(self, len, channel) == self

reset_matrix_stereo(self, len, channel) ==
    [self EXCEPT !.raw_matrix = MatrixFixedNew(len, NEW_RING_CHANNELS)]

reset_matrix(self, len, channel) ==
    [self EXCEPT !.raw_matrix = MatrixFixedNew(len, channel)]

\* LineDatas::append_data: [outcome, value]. MatrixFixed::append panics on a
\* channel mismatch; with no channel on either side its loop over
\* matrix.chunks(1) never ends.
append_data(self, matrix) ==
    IF MatrixChannel(matrix) = 0 /\ self.raw_matrix.channel = 0
    THEN [outcome |-> "hung", value |-> self]
    ELSE LET r == MatrixFixedAppend(self.raw_matrix, matrix)
         IN [outcome |-> IF r.panicked THEN "panicked" ELSE "running",
             value |-> [self EXCEPT !.raw_matrix = r.value]]

\* SolarSystem::update on Message::Pw(ev): [outcome, value]
Update(self, ev) ==
    CASE ev.type = "FormatChange" ->
            [outcome |-> "running",
             value |-> set_rate(reset_matrix(self, RESET_RING_LEN, ev.channels), ev.rate)]
      [] ev.type = "Spectrum" ->
            [outcome |-> "running", value |-> set_spectrum(self, ev.data)]
      [] ev.type = "DataNew" -> append_data(self, ev.matrix)
      [] OTHER -> [outcome |-> "running", value |-> self]

\* the renderer takes the next event of the subscription and handles it
Deliver ==
    /\ Alive
    /\ uiPc = "running"
    /\ output # <<>>
    /\ delivered' = Append(delivered, Head(output))
    /\ output' = Tail(output)
    /\ state' = Update(state, Head(output)).value
    /\ uiPc' = Update(state, Head(output)).outcome
    /\ UNCHANGED <<handoff, relayPc, relayItem>>
    /\ UNCHANGED <<sessVars, chunkVars, fixedVars>>

----------------------------------------------------------------------------
(* Idle values of the parts a specification does not use *)

SessIdle ==
    /\ pc = "idle"
    /\ format = DefaultFormat
    /\ spectrum_data = <<>>
    /\ calls = 0
    /\ lastCall = [kind |-> "none", arg |-> <<>>, from |-> 0]
    /\ emitted = <<>>
    /\ handoff = <<>>
    /\ relayPc = "idle"
    /\ relayItem = NoItem
    /\ output = <<>>
    /\ delivered = <<>>

ChunkIdle ==
    /\ chunkSrc = <<>>
    /\ chunkSize = 1
    /\ chunkIter = MatrixChunks(<<>>, 1)
    /\ chunkOut = <<>>
    /\ chunkDone = TRUE

UiIdle ==
    /\ state = <<>>
    /\ uiPc = "idle"

FixedIdle ==
    /\ fixed = MatrixFixedNew(0, 0)
    /\ fixedPrev = MatrixFixedNew(0, 0)
    /\ appended = <<>>
    /\ nAppends = 0
    /\ fixedPanicked = FALSE

----------------------------------------------------------------------------
(* Spec: the capture session *)

\* listen_pw has created the hand-off channel and spawned the capture thread;
\* the relay is at its first recv().
Init ==
    /\ pc = "connecting"
    /\ format = DefaultFormat
    /\ spectrum_data = <<>>
    /\ calls = 0
    /\ lastCall = [kind |-> "none", arg |-> <<>>, from |-> 0]
    /\ emitted = <<>>
    /\ handoff = <<>>
    /\ relayPc = "recv"
    /\ relayItem = NoItem
    /\ output = <<>>
    /\ delivered = <<>>
    /\ state = LineDatasNew
    /\ uiPc = "running"
    /\ ChunkIdle
    /\ FixedIdle

RateOf(channels) == IF channels % 2 = 0 THEN 48000 ELSE 44100

IgnoredParams ==
    {Param(FALSE, FALSE, FALSE, FALSE, FALSE, FALSE, 0, 0),
     Param(TRUE, FALSE, FALSE, FALSE, FALSE, FALSE, 0, 0),
     Param(TRUE, TRUE, FALSE, FALSE, FALSE, FALSE, 0, 0),
     Param(TRUE, TRUE, TRUE, FALSE, TRUE, TRUE, RateOf(2), 2),
     Param(TRUE, TRUE, TRUE, TRUE, FALSE, TRUE, RateOf(1), 1)}

RawParams ==
    {Param(TRUE, TRUE, TRUE, TRUE, TRUE, TRUE, RateOf(c), c) : c \in 0..2}
    \cup {Param(TRUE, TRUE, TRUE, TRUE, TRUE, FALSE, 0, 0)}

ParamInputs == IgnoredParams \cup RawParams

\* buffers of 0..4 samples: empty, one or two whole frames, a torn last frame
SampleCounts == 0..4

SkippedBuffers ==
    {Buffer(FALSE, 0, FALSE, 0), Buffer(TRUE, 0, FALSE, 0),
     Buffer(TRUE, 1, FALSE, 2 * F32_BYTES)}

DataBuffers == {Buffer(TRUE, 1, TRUE, n * F32_BYTES) : n \in SampleCounts}

ProcessInputs == SkippedBuffers \cup DataBuffers

Next ==
    \/ ConnectFail
    \/ ConnectOk
    \/ MainLoopReturn
    \/ (calls < MaxCalls /\ \E p \in ParamInputs : ParamChanged(p))
    \/ (calls < MaxCalls /\ \E b \in ProcessInputs : Process(b))
    \/ RelayRecv
    \/ RelayRecvClosed
    \/ RelaySend
    \/ Deliver

Spec == Init /\ [][Next]_vars

\* what makes a step a Deliver step, and Deliver possible: the renderer is
\* running and takes the head of a non-empty output
RendererTakes ==
    /\ Alive
    /\ uiPc = "running"
    /\ output # <<>>
    /\ delivered' = Append(delivered, Head(output))

\* The relay is a task of the async executor and the renderer keeps polling
\* the subscription: a step of either that stays possible is eventually taken.
\* Nothing is assumed of the capture thread.
Fairness ==
    /\ WF_vars(RelayRecv)
    /\ WF_vars(RelayRecvClosed)
    /\ WF_vars(RelaySend)
    /\ WF_delivered(RendererTakes)

SpecFair == Init /\ [][Next]_vars /\ Fairness

----------------------------------------------------------------------------
(* SpecLoad: one negotiation, then a stream of one-frame mono buffers, with a  *)
(* renderer that takes only the first MaxLoadDelivered events.                 *)

LoadParam == Param(TRUE, TRUE, TRUE, TRUE, TRUE, TRUE, 48000, 1)

LoadBuffer == Buffer(TRUE, 1, TRUE, F32_BYTES)

NextLoad ==
    \/ ConnectOk
    \/ (calls = 0 /\ ParamChanged(LoadParam))
    \/ (calls > 0 /\ calls < MaxLoadEvents /\ Process(LoadBuffer))
    \/ RelayRecv
    \/ RelaySend
    \/ (Len(delivered) < MaxLoadDelivered /\ Deliver)

SpecLoad == Init /\ [][NextLoad]_vars

----------------------------------------------------------------------------
(* SpecDrain: the stream of SpecLoad; the renderer takes MaxLoadDelivered      *)
(* events, then one event each time it finds the channel full, and everything  *)
(* once the stream has ended.                                                  *)

StreamEnded == calls = MaxLoadEvents

RendererLags ==
    \/ Len(delivered) < MaxLoadDelivered
    \/ Len(output) = OutputCapacity
    \/ StreamEnded

NextDrain ==
    \/ ConnectOk
    \/ (calls = 0 /\ ParamChanged(LoadParam))
    \/ (calls > 0 /\ calls < MaxLoadEvents /\ Process(LoadBuffer))
    \/ RelayRecv
    \/ RelaySend
    \/ (RendererLags /\ Deliver)

\* the relay and the lagging renderer are scheduled fairly; nothing is assumed
\* of the capture thread
DrainFairness ==
    /\ WF_vars(RelayRecv)
    /\ WF_vars(RelaySend)
    /\ WF_delivered(RendererLags /\ RendererTakes)

SpecDrain == Init /\ [][NextDrain]_vars /\ DrainFairness

----------------------------------------------------------------------------
(* SpecChunks: MatrixChunks::next stepped over bounded snapshots *)

\* (channel length, chunk size) pairs: all small ones, and 95 and 160 frames
\* re-chunked by 80
ChunkCases ==
    ((0..MaxSnapLen) \X (1..MaxChunkSize))
    \cup {<<95, CHUNK_FRAMES>>, <<2 * CHUNK_FRAMES, CHUNK_FRAMES>>}

\* more calls of next() than any snapshot of the cases with a channel needs:
\* the iteration over a snapshot without channels is cut off there
MaxChunkCalls == MaxSnapLen + 2

InitChunks ==
    /\ SessIdle
    /\ UiIdle
    /\ FixedIdle
    /\ \E c \in 0..MaxChannels : \E ls \in ChunkCases :
          /\ chunkSrc = FreshMatrix(c, ls[1], 0)
          /\ chunkSize = ls[2]
          /\ chunkIter = MatrixChunks(FreshMatrix(c, ls[1], 0), ls[2])
    /\ chunkOut = <<>>
    /\ chunkDone = FALSE

\* one call of next() by the for loop
ChunkNext ==
    /\ ~chunkDone
    /\ Len(chunkOut) < MaxChunkCalls
    /\ LET r == MatrixChunksNext(chunkIter)
       IN /\ chunkIter' = r.iter
          /\ chunkDone' = ~r.some
          /\ chunkOut' = IF r.some THEN Append(chunkOut, r.outputs) ELSE chunkOut
    /\ UNCHANGED <<chunkSrc, chunkSize>>
    /\ UNCHANGED <<sessVars, bridgeVars, fixedVars, uiVars>>

SpecChunks == InitChunks /\ [][ChunkNext]_vars

----------------------------------------------------------------------------
(* SpecFixed: MatrixFixed::new, then appends *)

InitFixed ==
    /\ SessIdle
    /\ UiIdle
    /\ ChunkIdle
    /\ \E len \in 1..MaxRingLen : \E c \in 1..MaxChannels :
          /\ fixed = MatrixFixedNew(len, c)
          /\ fixedPrev = MatrixFixedNew(len, c)
    /\ appended = <<>>
    /\ nAppends = 0
    /\ fixedPanicked = FALSE

\* raw_matrix.append(matrix) with a snapshot of mc channels and L frames
FixedAppend(mc, L) ==
    /\ ~fixedPanicked
    /\ nAppends < MaxAppends
    /\ LET matrix == FreshMatrix(mc, L, (nAppends + 1) * 100)
           r == MatrixFixedAppend(fixed, matrix)
       IN /\ appended' = matrix
          /\ fixedPrev' = fixed
          /\ fixed' = r.value
          /\ fixedPanicked' = r.panicked
    /\ nAppends' = nAppends + 1
    /\ UNCHANGED <<sessVars, bridgeVars, chunkVars, uiVars>>

NextFixed == \E mc \in 1..MaxChannels : \E L \in 0..MaxSnapLen : FixedAppend(mc, L)

SpecFixed == InitFixed /\ [][NextFixed]_vars

----------------------------------------------------------------------------
(* Properties *)

\* the events sent by the most recent step of the capture thread
EmittedByLastCall == SubSeq(emitted, lastCall.from + 1, Len(emitted))

\* what the relay has published into the consumer-facing channel so far
Published == delivered \o output

\* the event the relay has received from the hand-off queue and not yet published
Held == IF relayPc = "send" THEN <<relayItem>> ELSE <<>>

\* events sent by the capture thread and not yet taken by the renderer
Backlog == Len(handoff) + Len(Held) + Len(output)

\* the per-channel length of the snapshot being re-chunked
ChunkSrcLen == Len(chunkSrc[1])

ConnectFailureOnePwErr ==
    pc = "returned_err" =>
        /\ CountType(Published, "PwErr") <= 1
        /\ \A i \in 1..Len(Published) :
              Published[i].type = "PwErr" => i = Len(Published)

(***************************************************************************)
(* C3: a process callback that deinterleaves a buffer emits exactly one    *)
(* Spectrum event within that callback.                                    *)
(***************************************************************************)
SpectrumPerProcessedBatch ==
    lastCall.kind = "process_data" =>
        CountType(EmittedByLastCall, "Spectrum") = 1

(***************************************************************************)
(* C4: once UserData is constructed, spectrum_data holds exactly FFT_SIZE  *)
(* samples, whatever has been appended.                                    *)
(***************************************************************************)
SpectrumDataHoldsFftSize ==
    pc = "running" => Len(spectrum_data) = FFT_SIZE

(***************************************************************************)
(* C5: after MatrixFixed::new(len, c) and any appends of c-channel         *)
(* snapshots, data() has c channels, each of length exactly len.           *)
(***************************************************************************)
FixedKeepsShape ==
    /\ fixed.len = fixedPrev.len
    /\ fixed.channel = fixedPrev.channel
    /\ Len(MatrixFixedData(fixed)) = fixed.channel
    /\ \A ch \in 1..Len(MatrixFixedData(fixed)) :
          Len(MatrixFixedData(fixed)[ch]) = fixed.len

\* a second append has gone through, with more frames than the ring holds
FixedOverfullAppendReached ==
    /\ nAppends >= 2
    /\ ~fixedPanicked
    /\ Len(appended[1]) > fixed.len
    /\ fixed.channel = 2

(***************************************************************************)
(* C6: appending k <= len samples per channel to a ring holding            *)
(* [a_1 .. a_len] leaves [a_(k+1) .. a_len, new_1 .. new_k], per channel.  *)
(***************************************************************************)
FixedAppendIsFifo ==
    (nAppends > 0 /\ ~fixedPanicked /\ Len(appended[1]) <= fixed.len) =>
        \A ch \in 1..fixed.channel :
            MatrixFixedData(fixed)[ch] =
                SubSeq(MatrixFixedData(fixedPrev)[ch],
                       Len(appended[1]) + 1, fixedPrev.len)
                \o appended[ch]

\* a partial eviction from a ring that already holds appended samples
FixedPartialEvictionReached ==
    /\ nAppends >= 2
    /\ ~fixedPanicked
    /\ fixed.channel = 2
    /\ Len(appended[1]) >= 1
    /\ Len(appended[1]) < fixed.len
    /\ MatrixFixedData(fixedPrev)[1][fixedPrev.len] # 0
    /\ MatrixFixedData(fixed)[1][1] # 0

(***************************************************************************)
(* C7: no DataNew is emitted before the first FormatChange, and a          *)
(* param_changed call emits exactly one FormatChange, carrying the parsed  *)
(* rate and channels, when its proposal is an accepted raw-audio format,   *)
(* and none otherwise.                                                     *)
(***************************************************************************)
IsRawAudioFormat(p) ==
    p.present /\ p.is_format /\ p.parsed /\ p.audio /\ p.raw /\ p.raw_ok

FormatChangeBeforeData ==
    /\ \A i \in 1..Len(emitted) :
          emitted[i].type = "DataNew" =>
              \E j \in 1..(i - 1) : emitted[j].type = "FormatChange"
    /\ lastCall.kind \in {"param_accepted", "param_ignored", "param_panic"} =>
          EmittedByLastCall =
              IF IsRawAudioFormat(lastCall.arg)
              THEN <<FormatChange(lastCall.arg.rate, lastCall.arg.channels)>>
              ELSE <<>>
    /\ lastCall.kind \in {"process_data", "process_skipped", "process_panic"} =>
          CountType(EmittedByLastCall, "FormatChange") = 0

\* a renegotiation: two FormatChange events and a DataNew after the first
RenegotiationReached ==
    /\ CountType(emitted, "FormatChange") = 2
    /\ CountType(emitted, "DataNew") >= 1
    /\ emitted[1].type = "FormatChange"
    /\ emitted[2].type = "DataNew"
    /\ lastCall.kind = "param_accepted"

(***************************************************************************)
(* C8: while the capture thread runs, a push into the hand-off queue (the   *)
(* send of a FormatChange by a format callback, of a DataNew by a process  *)
(* callback) is enabled whatever the length of the hand-off queue, whether *)
(* or not the consumer-facing channel is full, and whether or not the      *)
(* relay or the renderer moves; so is the format callback as a whole.      *)
(***************************************************************************)
PushNeverWaits ==
    pc = "running" =>
        /\ ENABLED Emit(<<FormatChange(LoadParam.rate, LoadParam.channels)>>)
        /\ ENABLED Emit(<<DataNew(<<<<0>>>>)>>)
        /\ ENABLED ParamChanged(LoadParam)

\* the consumer-facing channel is full, the relay is stuck in output.send with
\* an event in hand, events wait in the hand-off queue, and the next push is
\* still possible
PushWithFullOutputReached ==
    /\ pc = "running"
    /\ Len(output) = OutputCapacity
    /\ relayPc = "send"
    /\ ~OutputReady(output)
    /\ Len(handoff) >= 1
    /\ format.channels = 1
    /\ ENABLED Emit(<<DataNew(<<<<0>>>>)>>)

(***************************************************************************)
(* C9: the number of events sent by the capture thread and not yet         *)
(* delivered to the renderer never exceeds a fixed bound; the bound tried  *)
(* is what the bounded channel and the relay can hold between them.        *)
(***************************************************************************)
BacklogBound == OutputCapacity + 1

BacklogIsBounded == Backlog <= BacklogBound

(***************************************************************************)
(* C10: what the relay has published, then the event it holds, then the    *)
(* hand-off queue, is exactly the sequence the capture thread emitted:     *)
(* every event is taken once, forwarded at most once, in emission order.   *)
(* After the relay's final PwErr the published sequence is the emitted one *)
(* followed by that PwErr.                                                 *)
(***************************************************************************)
RelayPreservesOrder ==
    /\ Published \o Held \o handoff =
          IF relayPc = "done" THEN emitted \o <<PwErr>> ELSE emitted
    /\ \A i \in 1..Len(delivered) :
          delivered[i] = (emitted \o <<PwErr>>)[i]

\* the renderer has taken a FormatChange and then a DataNew while a later
\* event still waits in the hand-off queue
OrderedDeliveryReached ==
    /\ Len(delivered) >= 2
    /\ delivered[1].type = "FormatChange"
    /\ delivered[2].type = "DataNew"
    /\ Len(handoff) >= 1

(***************************************************************************)
(* C11: the relay breaks out of its loop only when every Sender is gone    *)
(* and the hand-off queue is empty, everything emitted having been         *)
(* published before; its last publication is one PwErr of its own, after   *)
(* which it publishes nothing; and, the relay and the renderer being       *)
(* scheduled fairly, an exited capture thread leads to a terminated relay. *)
(***************************************************************************)
RelayDrainsThenFails ==
    /\ [](relayPc = "final" =>
            SendersDropped /\ handoff = <<>> /\ Published = emitted)
    /\ [](relayPc = "done" =>
            SendersDropped /\ handoff = <<>> /\ Published = emitted \o <<PwErr>>)
    /\ [][relayPc = "done" => (relayPc' = "done" /\ Published' = Published)]_vars
    /\ (SendersDropped ~> relayPc = "done")

\* the run loop returned with several events emitted; the relay forwarded them
\* all, published its PwErr and stopped
RelayTerminatedReached ==
    /\ pc = "returned_ok"
    /\ relayPc = "done"
    /\ Len(emitted) >= 2
    /\ Len(Published) = Len(emitted) + 1
    /\ Published[Len(Published)] = PwErr
    /\ Published[Len(emitted)].type = "DataNew"

(***************************************************************************)
(* C12: at every point of the iteration, the items returned so far,        *)
(* concatenated per channel in the order they were returned, are a prefix  *)
(* of that channel of the snapshot, and the prefix is equally long in      *)
(* every channel.                                                          *)
(***************************************************************************)
ChunkOutChannel(ch) == [i \in 1..Len(chunkOut) |-> chunkOut[i][ch]]

ChunksArePrefix ==
    \A ch \in 1..Len(chunkSrc) :
        LET cat == Flatten(ChunkOutChannel(ch))
        IN /\ Len(cat) <= Len(chunkSrc[ch])
           /\ cat = SubSeq(chunkSrc[ch], 1, Len(cat))
           /\ Len(cat) = Len(Flatten(ChunkOutChannel(1)))

\* two channels of 4 samples re-chunked by 3: a full and a partial item
ChunksConcatenatedReached ==
    /\ chunkDone
    /\ Len(chunkSrc) = 2
    /\ Len(chunkSrc[1]) = 4
    /\ chunkSize = 3
    /\ Len(chunkOut) = 2
    /\ Flatten(ChunkOutChannel(2)) = chunkSrc[2]

(***************************************************************************)
(* C13: MatrixFixed::append panics exactly when the snapshot's channel     *)
(* count differs from the ring's, and the ring it was called on is then    *)
(* what it was before the call: nothing was pushed, nothing evicted.       *)
(***************************************************************************)
AppendRejectsMismatch ==
    nAppends > 0 =>
        /\ fixedPanicked <=> (MatrixChannel(appended) # fixedPrev.channel)
        /\ MatrixChannel(appended) # fixedPrev.channel => fixed = fixedPrev

\* a ring already holding appended samples rejects a non-empty snapshot of
\* another channel count
MismatchRejectedReached ==
    /\ nAppends >= 2
    /\ fixedPanicked
    /\ MatrixChannel(appended) # fixed.channel
    /\ Len(appended[1]) >= 1
    /\ MatrixFixedData(fixed)[1][fixed.len] # 0
    /\ fixed = fixedPrev

(***************************************************************************)
(* C14: a param_changed call whose param is absent, whose id is not        *)
(* Format, whose format header does not parse, or whose media type is not  *)
(* Audio or subtype not Raw, sends nothing and leaves the stored format,   *)
(* spectrum_data and the capture thread's position as they were.           *)
(***************************************************************************)
IsParamCall(kind) == kind \in {"param_accepted", "param_ignored", "param_panic"}

NotRawAudioProposal(p) ==
    ~p.present \/ ~p.is_format \/ ~p.parsed \/ ~p.audio \/ ~p.raw

IgnoredParamChangesNothing ==
    [][(/\ calls' = calls + 1
        /\ IsParamCall(lastCall'.kind)
        /\ NotRawAudioProposal(lastCall'.arg))
       => (/\ emitted' = emitted
           /\ handoff' = handoff
           /\ format' = format
           /\ spectrum_data' = spectrum_data
           /\ pc' = pc)]_vars

\* with a mono format stored, a parsable non-audio proposal naming two
\* channels has been ignored
IgnoredParamReached ==
    /\ lastCall.kind = "param_ignored"
    /\ lastCall.arg.parsed
    /\ ~lastCall.arg.audio
    /\ lastCall.arg.channels = 2
    /\ format.channels = 1
    /\ lastCall.from = Len(emitted)
    /\ Len(emitted) >= 1

(***************************************************************************)
(* C15: a process call in which no buffer is dequeued, or the buffer has   *)
(* no data region, or its first region is not mapped, sends nothing,       *)
(* leaves the stored format and spectrum_data as they were, and leaves the *)
(* capture thread running (the stream's later callbacks stay enabled).     *)
(***************************************************************************)
IsProcessCall(kind) == kind \in {"process_data", "process_skipped", "process_panic"}

NoUsableBuffer(b) == ~b.dequeued \/ b.n_datas = 0 \/ ~b.mapped

SkippedProcessChangesNothing ==
    [][(/\ calls' = calls + 1
        /\ IsProcessCall(lastCall'.kind)
        /\ NoUsableBuffer(lastCall'.arg))
       => (/\ emitted' = emitted
           /\ handoff' = handoff
           /\ format' = format
           /\ spectrum_data' = spectrum_data
           /\ pc' = "running")]_vars

\* before any format is stored (channels = 0), a buffer whose region is not
\* mapped but whose chunk size is not zero has been skipped
SkippedProcessReached ==
    /\ lastCall.kind = "process_skipped"
    /\ lastCall.arg.dequeued
    /\ lastCall.arg.n_datas = 1
    /\ ~lastCall.arg.mapped
    /\ lastCall.arg.size > 0
    /\ format.channels = 0
    /\ pc = "running"

(***************************************************************************)
(* C16: a process call on a mapped buffer of n samples, n a multiple of    *)
(* the stored channel count c >= 1, builds a matrix of c channels of n/c   *)
(* samples in which sample j of channel ch (both from 0) is the float      *)
(* whose little-endian bytes are bytes 4(j*c+ch) .. 4(j*c+ch)+3 of the     *)
(* buffer, and passes channel 0 of it, in order, to append_spectrum.       *)
(***************************************************************************)
\* the interleaved sample k (from 0) the audio service wrote into the buffer of
\* the most recent callback
WrittenSample(k) == SampleValue(calls - 1, k)

LastSampleCount == lastCall.arg.size \div F32_BYTES

DeinterleaveIsLittleEndianInterleaved ==
    (/\ lastCall.kind \in {"process_data", "process_panic"}
     /\ format.channels >= 1
     /\ LastSampleCount % format.channels = 0)
    => /\ lastCall.kind = "process_data"
       /\ Len(lastCall.matrix) = format.channels
       /\ \A ch \in 1..format.channels :
             /\ Len(lastCall.matrix[ch]) = LastSampleCount \div format.channels
             /\ \A j \in 1..Len(lastCall.matrix[ch]) :
                   lastCall.matrix[ch][j] =
                       WrittenSample((j - 1) * format.channels + (ch - 1))
       /\ Len(lastCall.spectrum_input) = LastSampleCount \div format.channels
       /\ \A j \in 1..Len(lastCall.spectrum_input) :
             lastCall.spectrum_input[j] = WrittenSample((j - 1) * format.channels)

\* two stereo frames have been deinterleaved
StereoFramesDeinterleavedReached ==
    /\ lastCall.kind = "process_data"
    /\ format.channels = 2
    /\ LastSampleCount = 4
    /\ Len(lastCall.matrix[2]) = 2
    /\ lastCall.matrix[1][2] # lastCall.matrix[2][1]
    /\ Len(lastCall.spectrum_input) = 2

(***************************************************************************)
(* C17: the step in which the renderer handles FormatChange(rate, c)       *)
(* leaves it with a ring of exactly c channels, each RESET_RING_LEN (500)  *)
(* zeros, whatever the ring held before, with the stored rate equal to     *)
(* rate and the stored spectrum what it was.                               *)
(***************************************************************************)
FormatChangeResetsRing ==
    [][(delivered' # delivered /\ Head(output).type = "FormatChange")
       => (/\ uiPc' = "running"
           /\ state'.raw_matrix.channel = Head(output).channels
           /\ state'.raw_matrix.len = 500
           /\ Len(MatrixFixedData(state'.raw_matrix)) = Head(output).channels
           /\ \A ch \in 1..Head(output).channels :
                 MatrixFixedData(state'.raw_matrix)[ch] = [i \in 1..500 |-> 0]
           /\ state'.rate = Head(output).rate
           /\ state'.spectrum = state.spectrum)]_vars

\* the renderer has handled a FormatChange, a DataNew that put samples into
\* the ring, and then a FormatChange with another channel count
RingResetAfterDataReached ==
    /\ Len(delivered) = 3
    /\ delivered[1].type = "FormatChange"
    /\ delivered[2].type = "DataNew"
    /\ Len(delivered[2].matrix[1]) >= 1
    /\ delivered[3].type = "FormatChange"
    /\ delivered[3].channels # delivered[1].channels
    /\ delivered[3].channels >= 1
    /\ state.raw_matrix.channel = delivered[3].channels
    /\ state.rate = delivered[3].rate

ProcessNeverFaults ==
    (IsProcessCall(lastCall.kind) /\ ~NoUsableBuffer(lastCall.arg))
    => (lastCall.kind = "process_data" /\ pc # "aborted")

(***************************************************************************)
(* C21: the renderer never panics or hangs in update, and every DataNew    *)
(* still on its way to it (in the consumer-facing channel, in the relay's  *)
(* hand or in the hand-off queue) has as many channels as the ring will    *)
(* have when the renderer handles it: the channel count of the nearest     *)
(* FormatChange queued before it or, if none is queued before it, of the   *)
(* ring as it is now.                                                      *)
(***************************************************************************)
Pending == output \o Held \o handoff

\* the ring's channel count once the renderer has handled the first i - 1
\* pending events
RingChannelsBefore(i) ==
    LET fcs == {j \in 1..(i - 1) : Pending[j].type = "FormatChange"}
    IN IF fcs = {}
       THEN state.raw_matrix.channel
       ELSE Pending[CHOOSE j \in fcs : \A k \in fcs : k <= j].channels

AppendPreconditionHolds ==
    /\ uiPc = "running"
    /\ \A i \in 1..Len(Pending) :
          Pending[i].type = "DataNew" =>
              MatrixChannel(Pending[i].matrix) = RingChannelsBefore(i)

\* the renderer, whose ring started with two channels, has handled a mono
\* FormatChange and appended the mono DataNew that followed it, while the
\* capture thread has already renegotiated to two channels and that
\* FormatChange is still on its way
AppendAcrossRenegotiationReached ==
    /\ Len(delivered) = 2
    /\ delivered[1].type = "FormatChange"
    /\ delivered[1].channels = 1
    /\ delivered[2].type = "DataNew"
    /\ MatrixChannel(delivered[2].matrix) = 1
    /\ state.raw_matrix.channel = 1
    /\ MatrixFixedData(state.raw_matrix)[1][state.raw_matrix.len] # 0
    /\ Len(Pending) = 1
    /\ Pending[1].type = "FormatChange"
    /\ Pending[1].channels = 2
    /\ format.channels = 2

====
